---- MODULE Spec2Model ----
(***************************************************************************)
(* Weather backend: /weather-report ingestion (validate, fetch, normalise, *)
(* persist) and the /export/excel and /export/pdf endpoints over the       *)
(* sqlite table weather_data.                                              *)
(*                                                                         *)
(* Time.  The clock counts the ticks of CURRENT_TIMESTAMP (its resolution, *)
(* one second in sqlite); TicksPerHour of them make one hour.  Observation *)
(* timestamps are whole hours (the upstream series is hourly), written as  *)
(* integers: the ISO-8601 text of the source orders and parses as that     *)
(* hour number.  Readings are integers standing for the floats.            *)
(***************************************************************************)
EXTENDS Integers, Sequences, FiniteSets, TLC

\* ---------------------------------------------------------------- bounds
MaxRows == 2        \* rows the table may hold before ingestion is cut off
MaxLen == 2         \* longest array of an upstream response
MaxClock == 2       \* last clock tick
TicksPerHour == 2   \* clock ticks in one hour

\* ------------------------------------------------------ program constants
ExportDays == 2     \* days=2 in generate_excel_export / generate_pdf_report
LatestDays == 2     \* '-2 days' in get_latest_location_data
HoursPerDay == 24   \* sqlite datetime('now', '-N days')

\* ------------------------------------------------------------ JSON values
Null == [isnull |-> TRUE, val |-> 0]
Num(v) == [isnull |-> FALSE, val |-> v]

\* --------------------------------------------------- query-string values
\* request.args.get(name): None when the parameter is absent, else its text.
Absent == [kind |-> "absent", val |-> 0]
Empty == [kind |-> "empty", val |-> 0]
Text == [kind |-> "text", val |-> 0]
NaN == [kind |-> "nan", val |-> 0]
NumArg(v) == [kind |-> "num", val |-> v]

\* `not lat`: None and '' are falsy, every other string is truthy.
Falsy(a) == a.kind \in {"absent", "empty"}

\* float(text) raises ValueError unless the text is a number ('nan' is one).
FloatRaises(a) == a.kind = "text"

\* -90 <= x <= 90 on floats: every comparison with nan is False.
Between(lo, a, hi) == a.kind = "num" /\ lo <= a.val /\ a.val <= hi

\* -------------------------------------------------------------- responses
NoRows == << >>
NoApi == [ok |-> FALSE, hourly |-> FALSE, keys |-> {}, time |-> << >>,
          temperature_2m |-> << >>, relative_humidity_2m |-> << >>]
NoError == [status |-> 0, error |-> ""]

\* The validation with the lower bound of the latitude check left out.
validate_no_lower_bound(lat, lon) ==
    IF Falsy(lat) \/ Falsy(lon)
    THEN [status |-> 400, error |-> "Both lat and lon parameters are required"]
    ELSE IF FloatRaises(lat) \/ FloatRaises(lon)
    THEN [status |-> 400,
          error |-> "Invalid latitude or longitude values - must be numbers"]
    ELSE IF ~(lat.kind = "num" /\ lat.val <= 90)
    THEN [status |-> 400, error |-> "Latitude must be between -90 and 90"]
    ELSE IF ~Between(-180, lon, 180)
    THEN [status |-> 400, error |-> "Longitude must be between -180 and 180"]
    ELSE NoError

\* The validation with the longitude range check left out.
validate_no_lon_range(lat, lon) ==
    IF Falsy(lat) \/ Falsy(lon)
    THEN [status |-> 400, error |-> "Both lat and lon parameters are required"]
    ELSE IF FloatRaises(lat) \/ FloatRaises(lon)
    THEN [status |-> 400,
          error |-> "Invalid latitude or longitude values - must be numbers"]
    ELSE IF ~Between(-90, lat, 90)
    THEN [status |-> 400, error |-> "Latitude must be between -90 and 90"]
    ELSE NoError

\* _validate_coordinates_input: the 400 response, or NoError for None.
validate_coordinates_input(lat, lon) ==
    IF Falsy(lat) \/ Falsy(lon)
    THEN [status |-> 400, error |-> "Both lat and lon parameters are required"]
    ELSE IF FloatRaises(lat) \/ FloatRaises(lon)
    THEN [status |-> 400,
          error |-> "Invalid latitude or longitude values - must be numbers"]
    ELSE IF ~Between(-90, lat, 90)
    THEN [status |-> 400, error |-> "Latitude must be between -90 and 90"]
    ELSE IF ~Between(-180, lon, 180)
    THEN [status |-> 400, error |-> "Longitude must be between -180 and 180"]
    ELSE NoError

\* ------------------------------------------------------ upstream responses
\* A response of the forecast API: ok is FALSE when requests.get or
\* raise_for_status raises; hourly says whether the body has an 'hourly'
\* section and keys which arrays that section holds.
HourlyKeys == {"time", "temperature_2m", "relative_humidity_2m"}

Api(t, temp, hum) ==
    [ok |-> TRUE, hourly |-> TRUE, keys |-> HourlyKeys, time |-> t,
     temperature_2m |-> temp, relative_humidity_2m |-> hum]

\* api_response.get('hourly', {}).get(key, [])
HourlyGet(api, key) ==
    IF api.hourly /\ key \in api.keys THEN api[key] ELSE << >>

\* temperatures[i] if temperatures[i] is not None else 0.0
Coerce(v) == IF v.isnull THEN 0 ELSE v.val

ProcessRaise(msg) == [raised |-> TRUE, error |-> msg, data |-> << >>]

\* No call of process_weather_data has returned.
NotProcessed == [raised |-> FALSE, error |-> "not called", data |-> << >>]

\* process_weather_data skipping the hours whose temperature is null.
process_dropping_nulls(api, latitude, longitude) ==
    LET timestamps == HourlyGet(api, "time")
        temperatures == HourlyGet(api, "temperature_2m")
        humidity == HourlyGet(api, "relative_humidity_2m")
        kept == SelectSeq([i \in 1..Len(timestamps) |-> i],
                          LAMBDA i : ~temperatures[i].isnull)
    IN  IF timestamps = << >> \/ temperatures = << >> \/ humidity = << >>
        THEN ProcessRaise("Invalid API response: Missing required data fields")
        ELSE IF Len(temperatures) < Len(timestamps)
                \/ Len(humidity) < Len(timestamps)
        THEN ProcessRaise("list index out of range")
        ELSE [raised |-> FALSE, error |-> "",
              data |-> [k \in 1..Len(kept) |->
                          [timestamp |-> timestamps[kept[k]],
                           latitude |-> latitude,
                           longitude |-> longitude,
                           temperature_2m |-> temperatures[kept[k]].val,
                           relative_humidity_2m |-> Coerce(humidity[kept[k]])]]]

\* process_weather_data with `not humidity` left out of its check.
process_unchecked_humidity(api, latitude, longitude) ==
    LET timestamps == HourlyGet(api, "time")
        temperatures == HourlyGet(api, "temperature_2m")
        humidity == HourlyGet(api, "relative_humidity_2m")
    IN  IF timestamps = << >> \/ temperatures = << >>
        THEN ProcessRaise("Invalid API response: Missing required data fields")
        ELSE IF Len(temperatures) < Len(timestamps)
                \/ Len(humidity) < Len(timestamps)
        THEN ProcessRaise("list index out of range")
        ELSE [raised |-> FALSE, error |-> "",
              data |-> [i \in 1..Len(timestamps) |->
                          [timestamp |-> timestamps[i],
                           latitude |-> latitude,
                           longitude |-> longitude,
                           temperature_2m |-> Coerce(temperatures[i]),
                           relative_humidity_2m |-> Coerce(humidity[i])]]]

\* process_weather_data filling the latitude column with the longitude and
\* the longitude column with the latitude.
process_swapping_coordinates(api, latitude, longitude) ==
    LET timestamps == HourlyGet(api, "time")
        temperatures == HourlyGet(api, "temperature_2m")
        humidity == HourlyGet(api, "relative_humidity_2m")
    IN  IF timestamps = << >> \/ temperatures = << >> \/ humidity = << >>
        THEN ProcessRaise("Invalid API response: Missing required data fields")
        ELSE IF Len(temperatures) < Len(timestamps)
                \/ Len(humidity) < Len(timestamps)
        THEN ProcessRaise("list index out of range")
        ELSE [raised |-> FALSE, error |-> "",
              data |-> [i \in 1..Len(timestamps) |->
                          [timestamp |-> timestamps[i],
                           latitude |-> longitude,
                           longitude |-> latitude,
                           temperature_2m |-> Coerce(temperatures[i]),
                           relative_humidity_2m |-> Coerce(humidity[i])]]]

\* process_weather_data walking the three arrays together (zip): as many
\* tuples as the shortest array has entries, and no IndexError.
process_zipping(api, latitude, longitude) ==
    LET timestamps == HourlyGet(api, "time")
        temperatures == HourlyGet(api, "temperature_2m")
        humidity == HourlyGet(api, "relative_humidity_2m")
        least(a, b) == IF a < b THEN a ELSE b
        n == least(Len(timestamps), least(Len(temperatures), Len(humidity)))
    IN  IF timestamps = << >> \/ temperatures = << >> \/ humidity = << >>
        THEN ProcessRaise("Invalid API response: Missing required data fields")
        ELSE [raised |-> FALSE, error |-> "",
              data |-> [i \in 1..n |->
                          [timestamp |-> timestamps[i],
                           latitude |-> latitude,
                           longitude |-> longitude,
                           temperature_2m |-> Coerce(temperatures[i]),
                           relative_humidity_2m |-> Coerce(humidity[i])]]]

\* process_weather_data: the data_list, or the exception it raises.
\* An index past the end of temperatures or humidity is an IndexError.
process_weather_data(api, latitude, longitude) ==
    LET timestamps == HourlyGet(api, "time")
        temperatures == HourlyGet(api, "temperature_2m")
        humidity == HourlyGet(api, "relative_humidity_2m")
    IN  IF timestamps = << >> \/ temperatures = << >> \/ humidity = << >>
        THEN ProcessRaise("Invalid API response: Missing required data fields")
        ELSE IF Len(temperatures) < Len(timestamps)
                \/ Len(humidity) < Len(timestamps)
        THEN ProcessRaise("list index out of range")
        ELSE [raised |-> FALSE, error |-> "",
              data |-> [i \in 1..Len(timestamps) |->
                          [timestamp |-> timestamps[i],
                           latitude |-> latitude,
                           longitude |-> longitude,
                           temperature_2m |-> Coerce(temperatures[i]),
                           relative_humidity_2m |-> Coerce(humidity[i])]]]

\* ------------------------------------------------------------ the table
\* One row of weather_data; its id is its position in the table.
\* created_at DEFAULT CURRENT_TIMESTAMP is the clock at the insert.
StoredRow(d, clk) ==
    [timestamp |-> d.timestamp.val,
     latitude |-> d.latitude,
     longitude |-> d.longitude,
     temperature_2m |-> d.temperature_2m,
     relative_humidity_2m |-> d.relative_humidity_2m,
     created_at |-> clk]

\* insert_weather_data as INSERT OR IGNORE under a unique key on
\* (latitude, longitude, timestamp): rows already stored are skipped.
insert_deduplicating(data_list, s, clk) ==
    LET fresh == SelectSeq(data_list,
                    LAMBDA d : ~\E i \in 1..Len(s) :
                                  /\ s[i].timestamp = d.timestamp.val
                                  /\ s[i].latitude = d.latitude
                                  /\ s[i].longitude = d.longitude)
    IN  IF \E i \in 1..Len(data_list) : data_list[i].timestamp.isnull
        THEN [raised |-> TRUE,
              error |-> "NOT NULL constraint failed: weather_data.timestamp",
              rowcount |-> 0, table |-> s]
        ELSE [raised |-> FALSE, error |-> "", rowcount |-> Len(fresh),
              table |-> s \o [i \in 1..Len(fresh) |-> StoredRow(fresh[i], clk)]]

\* insert_weather_data: executemany in one transaction.  timestamp TEXT NOT
\* NULL rejects a null timestamp; the except branch rolls the batch back and
\* re-raises, so the table is the old one.
insert_weather_data(data_list, s, clk) ==
    IF \E i \in 1..Len(data_list) : data_list[i].timestamp.isnull
    THEN [raised |-> TRUE,
          error |-> "NOT NULL constraint failed: weather_data.timestamp",
          rowcount |-> 0, table |-> s]
    ELSE [raised |-> FALSE, error |-> "", rowcount |-> Len(data_list),
          table |-> s \o [i \in 1..Len(data_list) |->
                            StoredRow(data_list[i], clk)]]

\* ------------------------------------------------------------ ingestion
ErrorResult(msg) ==
    [status |-> "error", message |-> msg, records_count |-> 0]

\* fetch_and_store_weather_data reporting a failed normalisation as a
\* success that stored nothing.
fetch_and_store_empty_success(latitude, longitude, api, s, clk) ==
    LET processed == process_weather_data(api, latitude, longitude)
        inserted == insert_weather_data(processed.data, s, clk)
    IN  IF ~api.ok
        THEN [result |-> ErrorResult("Failed to fetch weather data"),
              table |-> s, processed |-> NotProcessed, fetched |-> TRUE]
        ELSE IF inserted.raised
        THEN [result |-> ErrorResult(inserted.error),
              table |-> s, processed |-> processed, fetched |-> TRUE]
        ELSE [result |-> [status |-> "success",
                          message |-> "Successfully stored weather records",
                          records_count |-> Len(processed.data)],
              table |-> inserted.table, processed |-> processed,
              fetched |-> TRUE]

\* fetch_and_store_weather_data: the result dict, the table afterwards, what
\* process_weather_data returned and whether step 1 called the upstream API.
fetch_and_store_weather_data(latitude, longitude, api, s, clk) ==
    LET processed == process_weather_data(api, latitude, longitude)
        inserted == insert_weather_data(processed.data, s, clk)
    IN  IF ~api.ok
        THEN [result |-> ErrorResult("Failed to fetch weather data"),
              table |-> s, processed |-> NotProcessed, fetched |-> TRUE]
        ELSE IF processed.raised
        THEN [result |-> ErrorResult(processed.error),
              table |-> s, processed |-> processed, fetched |-> TRUE]
        ELSE IF inserted.raised
        THEN [result |-> ErrorResult(inserted.error),
              table |-> s, processed |-> processed, fetched |-> TRUE]
        ELSE [result |-> [status |-> "success",
                          message |-> "Successfully stored weather records",
                          records_count |-> Len(processed.data)],
              table |-> inserted.table, processed |-> processed,
              fetched |-> TRUE]

\* The HTTP response of a request, with the request it answers.
Response(endpoint, lat, lon, status, kind, error, count, rows) ==
    [endpoint |-> endpoint, lat |-> lat, lon |-> lon, status |-> status,
     kind |-> kind, error |-> error, records_count |-> count, rows |-> rows]

NoResponse == Response("none", Absent, Absent, 0, "none", "", 0, NoRows)

\* weather_report_endpoint: validation first; float() of the validated
\* parameters; 200 for a success result and 500 for an error result.
weather_report_endpoint(lat, lon, api, s, clk) ==
    LET validation_result == validate_coordinates_input(lat, lon)
        out == fetch_and_store_weather_data(lat.val, lon.val, api, s, clk)
    IN  IF validation_result # NoError
        THEN [response |-> Response("weather-report", lat, lon,
                                    validation_result.status, "validation",
                                    validation_result.error, 0, NoRows),
              table |-> s, processed |-> NotProcessed, fetched |-> FALSE]
        ELSE IF out.result.status = "success"
        THEN [response |-> Response("weather-report", lat, lon, 200, "success",
                                    "", out.result.records_count, NoRows),
              table |-> out.table, processed |-> out.processed,
              fetched |-> out.fetched]
        ELSE [response |-> Response("weather-report", lat, lon, 500, "error",
                                    out.result.message, 0, NoRows),
              table |-> out.table, processed |-> out.processed,
              fetched |-> out.fetched]

\* -------------------------------------------------------------- queries
\* The window test with > for >=.
InWindowStrict(ts, clk, days) ==
    ts * TicksPerHour > clk - days * HoursPerDay * TicksPerHour

\* datetime(timestamp) >= datetime('now', '-N days'): 'now' has the clock's
\* resolution, the timestamp is a whole hour.
InWindow(ts, clk, days) ==
    ts * TicksPerHour >= clk - days * HoursPerDay * TicksPerHour

\* SELECT timestamp, latitude, longitude, temperature_2m, relative_humidity_2m
Columns(r) ==
    [timestamp |-> r.timestamp, latitude |-> r.latitude,
     longitude |-> r.longitude, temperature_2m |-> r.temperature_2m,
     relative_humidity_2m |-> r.relative_humidity_2m]

Perms(S) ==
    {f \in [1..Cardinality(S) -> S] :
        \A i, j \in 1..Cardinality(S) : i # j => f[i] # f[j]}

\* WHERE latitude = ? AND longitude = ? AND datetime(timestamp) >= ...
\* ORDER BY timestamp DESC: every result list the statement may return (SQL
\* leaves the order of rows with equal timestamps open).
LocationWindowQuery(latitude, longitude, days, s, clk) ==
    LET ids == {i \in 1..Len(s) :
                    /\ s[i].latitude = latitude
                    /\ s[i].longitude = longitude
                    /\ InWindow(s[i].timestamp, clk, days)}
        desc == {f \in Perms(ids) :
                    \A i, j \in 1..Cardinality(ids) :
                        i < j => s[f[i]].timestamp >= s[f[j]].timestamp}
    IN  {[k \in 1..Cardinality(ids) |-> Columns(s[f[k]])] : f \in desc}

\* get_weather_data_by_location(latitude, longitude, days)
get_weather_data_by_location(latitude, longitude, days, s, clk) ==
    LocationWindowQuery(latitude, longitude, days, s, clk)

\* ORDER BY created_at DESC LIMIT 1: a row whose created_at is the greatest;
\* among rows inserted within the same tick SQL leaves the choice open.
LatestLocationRows(s) ==
    {i \in 1..Len(s) : \A j \in 1..Len(s) : s[j].created_at <= s[i].created_at}

\* get_latest_location_data: every result list it may return.
get_latest_location_data(s, clk) ==
    IF s = << >>
    THEN {<< >>}
    ELSE UNION {LocationWindowQuery(s[i].latitude, s[i].longitude, LatestDays,
                                    s, clk) : i \in LatestLocationRows(s)}

\* -------------------------------------------------------------- exports
\* An export artifact at its fixed path: complete once the writer has closed
\* it, with the rows written.
File(rows) == [exists |-> TRUE, complete |-> TRUE, rows |-> rows]
NoFile == [exists |-> FALSE, complete |-> FALSE, rows |-> NoRows]
PartialFile == [exists |-> TRUE, complete |-> FALSE, rows |-> NoRows]

\* The rows left in the order of the query.
sort_values_skipped(data) == {data}

\* df.sort_values('timestamp'): every ascending order of the rows (the
\* default sort is not stable).
sort_values(data) ==
    LET asc == {f \in Perms(1..Len(data)) :
                    \A i, j \in 1..Len(data) :
                        i < j => data[f[i]].timestamp <= data[f[j]].timestamp}
    IN  {[k \in 1..Len(data) |-> data[f[k]]] : f \in asc}

\* The data selection shared by generate_excel_export and
\* generate_pdf_report; latitude and longitude are Null for None.
SelectData(latitude, longitude, s, clk) ==
    IF ~latitude.isnull /\ ~longitude.isnull
    THEN get_weather_data_by_location(latitude.val, longitude.val, ExportDays,
                                      s, clk)
    ELSE get_latest_location_data(s, clk)

\* location_msg: `if latitude and longitude` is false for None and for 0.
LocationMsg(latitude, longitude) ==
    IF /\ ~latitude.isnull /\ latitude.val # 0
       /\ ~longitude.isnull /\ longitude.val # 0
    THEN " for location"
    ELSE " for the latest location"

\* The messages of an exception raised before the file is opened: wrapped
\* by `except Exception`, or the ValueError's own.
RenderErrors(wrap) == {wrap \o ": render", "Unknown datetime string format"}

Generated(raised, error, df, file) ==
    [raised |-> raised, error |-> error, df |-> df, file |-> file]

\* generate_excel_export / generate_pdf_report: every outcome of one call.
\* what is the message word ("export" or "PDF report"), wrap the prefix of a
\* wrapped failure; fault "write" is an exception raised by the rendering or
\* the write, which leaves the old file or a partial one; fault "render" is
\* one raised before the file is opened (building or sorting the frame, the
\* chart, the template), a ValueError among them re-raised as it is.
GenerateExport(what, wrap, latitude, longitude, s, clk, fault, old) ==
    UNION {
        IF data = << >>
        THEN {Generated(TRUE, "No weather data available for " \o what
                              \o LocationMsg(latitude, longitude), NoRows, old)}
        ELSE UNION {
            IF fault = "write"
            THEN {Generated(TRUE, wrap, NoRows, f) : f \in {old, PartialFile}}
            ELSE IF fault = "render"
            THEN {Generated(TRUE, e, NoRows, old) : e \in RenderErrors(wrap)}
            ELSE {Generated(FALSE, "", df, File(df))}
            : df \in sort_values(data)}
        : data \in SelectData(latitude, longitude, s, clk)}

\* generate_pdf_report without the `if not data` check: an empty selection
\* is rendered and written like any other.
generate_pdf_report_unchecked(latitude, longitude, s, clk, fault, old) ==
    UNION {
        {Generated(FALSE, "", df, File(df)) : df \in sort_values(data)}
        : data \in SelectData(latitude, longitude, s, clk)}

generate_excel_export(latitude, longitude, s, clk, fault, old) ==
    GenerateExport("export", "Failed to generate Excel export", latitude,
                   longitude, s, clk, fault, old)

generate_pdf_report(latitude, longitude, s, clk, fault, old) ==
    GenerateExport("PDF report", "Failed to generate PDF report", latitude,
                   longitude, s, clk, fault, old)

\* f"{value}°": the text of a float is its sign, when negative, and its
\* digits; letter is what follows the degree sign.
DegreeText(value) ==
    [minus |-> value < 0,
     digits |-> IF value < 0 THEN -value ELSE value,
     letter |-> ""]

\* The template printing the magnitude and a hemisphere letter.
template_with_hemisphere(latitude, longitude, date_range, record_count) ==
    [latitude |-> [minus |-> FALSE,
                   digits |-> IF latitude < 0 THEN -latitude ELSE latitude,
                   letter |-> IF latitude < 0 THEN "S" ELSE "N"],
     longitude |-> [minus |-> FALSE,
                    digits |-> IF longitude < 0 THEN -longitude ELSE longitude,
                    letter |-> IF longitude < 0 THEN "W" ELSE "E"],
     date_range |-> date_range, record_count |-> record_count]

\* create_pdf_html_template: the metadata block of the report, {latitude}°
\* and {longitude}° under Location Details (the chart is left out).
create_pdf_html_template(latitude, longitude, date_range, record_count) ==
    [latitude |-> DegreeText(latitude), longitude |-> DegreeText(longitude),
     date_range |-> date_range, record_count |-> record_count]

\* The report generate_pdf_report renders from the sorted frame df: the
\* location is that of df.iloc[0], the date range min to max timestamp.
PdfReport(df) ==
    create_pdf_html_template(
        df[1].latitude, df[1].longitude,
        [from |-> CHOOSE t \in {df[k].timestamp : k \in 1..Len(df)} :
                     \A k \in 1..Len(df) : t <= df[k].timestamp,
         to |-> CHOOSE t \in {df[k].timestamp : k \in 1..Len(df)} :
                   \A k \in 1..Len(df) : t >= df[k].timestamp],
        Len(df))

\* The endpoint sending whatever complete file is at the path, the generate
\* call raised or not.
ExportResponseServingOld(endpoint, prefix, lat, lon, g) ==
    IF g.file.exists /\ g.file.complete
    THEN [response |-> Response(endpoint, lat, lon, 200, "file", "",
                                Len(g.file.rows), g.file.rows),
          file |-> g.file]
    ELSE [response |-> Response(endpoint, lat, lon, 500, "error",
                                prefix \o g.error, 0, NoRows),
          file |-> g.file]

\* The body of both export endpoints after the generate call: 500 with a
\* JSON error for a raised exception, else the file read back by send_file.
ExportResponse(endpoint, prefix, lat, lon, g) ==
    IF g.raised
    THEN [response |-> Response(endpoint, lat, lon, 500, "error",
                                prefix \o g.error, 0, NoRows),
          file |-> g.file]
    ELSE IF ~g.file.exists
    THEN [response |-> Response(endpoint, lat, lon, 500, "error",
                                "Failed to generate file", 0, NoRows),
          file |-> g.file]
    ELSE [response |-> Response(endpoint, lat, lon, 200, "file", "",
                                Len(g.file.rows), g.file.rows),
          file |-> g.file]

\* None for a parameter that is not a number, else its value.
ArgOrNone(a) == IF a.kind = "num" THEN Num(a.val) ELSE Null

\* excel_export_endpoint handing the request's lat and lon to
\* generate_excel_export.
excel_export_endpoint_with_args(lat, lon, s, clk, fault, old) ==
    {ExportResponse("export/excel", "Excel export failed: ", lat, lon, g) :
        g \in generate_excel_export(ArgOrNone(lat), ArgOrNone(lon), s, clk,
                                    fault, old)}

\* excel_export_endpoint: generate_excel_export() is called without
\* arguments; lat and lon are the request's query parameters.
excel_export_endpoint(lat, lon, s, clk, fault, old) ==
    {ExportResponse("export/excel", "Excel export failed: ", lat, lon, g) :
        g \in generate_excel_export(Null, Null, s, clk, fault, old)}

\* pdf_export_endpoint: generate_pdf_report() is called without arguments.
pdf_export_endpoint(lat, lon, s, clk, fault, old) ==
    {ExportResponse("export/pdf", "PDF export failed: ", lat, lon, g) :
        g \in generate_pdf_report(Null, Null, s, clk, fault, old)}

\* --------------------------------------------------------------- inputs
\* The requests tried: the two corner coordinates, and requests with a
\* missing, non-numeric or out-of-range parameter.
GoodArgs == {<<NumArg(-90), NumArg(-180)>>, <<NumArg(90), NumArg(180)>>}

BadArgs ==
    {<<Absent, NumArg(180)>>, <<NumArg(90), Empty>>, <<Text, NumArg(180)>>,
     <<NumArg(-90), NaN>>, <<NumArg(-91), NumArg(-180)>>,
     <<NumArg(91), NumArg(180)>>, <<NumArg(-90), NumArg(-181)>>,
     <<NumArg(90), NumArg(181)>>, <<NumArg(91), Text>>, <<NaN, NumArg(181)>>}

RequestArgs == GoodArgs \cup BadArgs

\* Query parameters of an export request: none, or a coordinate.
ExportArgs == {<<Absent, Absent>>, <<NumArg(90), NumArg(180)>>}

Hour(clk) == clk \div TicksPerHour

\* Sequences over S of length n.
SeqsOf(S, n) == [1..n -> S]

\* An hourly series of n consecutive hours from hour h.
HourlySeries(h, n) == [i \in 1..n |-> Num(h + i - 1)]

\* Upstream responses served at clock clk to the ingestion requests: the API
\* unreachable, no time array, a null timestamp, a temperature array longer
\* and one shorter than the time array, and the hourly series from the
\* current hour on, each temperature null or present.
Responses(clk) ==
    {NoApi, Api(<< >>, <<Num(5)>>, <<Num(7)>>),
     Api(<<Null>>, <<Num(5)>>, <<Num(7)>>),
     Api(<<Num(Hour(clk))>>, <<Num(5), Num(6)>>, <<Num(7)>>),
     Api(HourlySeries(Hour(clk), MaxLen), <<Num(5)>>,
         [i \in 1..MaxLen |-> Num(7)])}
    \cup UNION {
        {Api(HourlySeries(Hour(clk), n), temp, [i \in 1..n |-> Num(7)]) :
            temp \in SeqsOf({Null, Num(5)}, n)}
        : n \in 1..MaxLen}

\* The first hours a stored series starts at, relative to the hour of the
\* request: the edge of the 48-hour window, and now.
StartOffsets == {-48, 0}

\* Arrays over S of every length up to MaxLen.
Arrays(S) == UNION {SeqsOf(S, n) : n \in 0..MaxLen}

\* Response bodies with all three arrays, of any lengths, timestamps and
\* readings null or present.
FullBodies ==
    {Api(t, temp, hum) : t \in Arrays({Null, Num(1)}),
                         temp \in Arrays({Null, Num(5)}),
                         hum \in Arrays({Null, Num(7)})}

\* Every response served: a body, a body lacking one key of its hourly
\* section, a body without hourly section.
ServedResponses ==
    FullBodies
    \cup {[b EXCEPT !.keys = HourlyKeys \ {k}] : b \in FullBodies, k \in HourlyKeys}
    \cup {[b EXCEPT !.hourly = FALSE] : b \in FullBodies}

\* Well-formed hourly series served at clock clk.
HourlyResponses(clk) ==
    {Api(HourlySeries(Hour(clk) + o, n), [i \in 1..n |-> Num(5)],
         [i \in 1..n |-> Num(7)]) : o \in StartOffsets, n \in 1..MaxLen}

\* ----------------------------------------------------------------- startup
\* DATABASE_CONNECTION_RETRIES and DATABASE_RETRY_DELAY (seconds)
DATABASE_CONNECTION_RETRIES == 5
DATABASE_RETRY_DELAY == 1

\* The tables of an initialised database file.
Tables == {"weather_data"}

\* initialize_database about to run: attempt is the loop variable, outcomes
\* lists for each attempt made what check_db_connection returned and how
\* init_db ended, waited totals the time.sleep calls.
Starting ==
    [pc |-> "loop", attempt |-> 0, outcomes |-> << >>, waited |-> 0,
     result |-> FALSE]

\* initialize_database returned True at its first attempt.
Started ==
    [pc |-> "returned", attempt |-> 0,
     outcomes |-> <<[check |-> TRUE, init |-> "created"]>>, waited |-> 0,
     result |-> TRUE]

\* ------------------------------------------------------ concurrent callers
\* Flask serves each request on a thread of its own; two are in flight.
Callers == {1, 2}

\* A caller with no request in flight.  stages lists the stages of
\* fetch_and_store_weather_data entered, data the rows to persist (or to
\* write), at the next row of executemany, file what send_file read.
Idle ==
    [pc |-> "idle", endpoint |-> "none", lat |-> Absent, lon |-> Absent,
     api |-> NoApi, data |-> << >>, at |-> 0, error |-> "", stages |-> << >>,
     rowcount |-> 0, status |-> 0, file |-> NoFile]

\* No write transaction is open: nobody holds the write lock.
NoJournal == [holder |-> 0, rows |-> << >>]

\* ---------------------------------------------------------------- state
VARIABLES
    weather_data,    \* the table weather_data, in id order
    clock,           \* the clock, in ticks
    files,           \* the artifacts exports/weather_data.xlsx and weather_report.pdf
    response,        \* the response to the last request, with the request
    upstream,        \* the upstream response served to the last request
    fetched,         \* whether the last request called the upstream API
    processed,       \* what process_weather_data returned to the last request
    calls,           \* the requests in flight, one per concurrent caller
    connections,     \* the sqlite connections that are open
    journal,         \* the write transaction: its holder and uncommitted rows
    startup,         \* the run of initialize_database at import
    schema           \* the tables of the database file

vars == <<weather_data, clock, files, response, upstream, fetched,
          processed, calls, connections, journal, startup, schema>>

Init ==
    /\ weather_data = << >>
    /\ clock = 0
    /\ files = [excel |-> NoFile, pdf |-> NoFile]
    /\ response = NoResponse
    /\ upstream = NoApi
    /\ fetched = FALSE
    /\ processed = NotProcessed
    /\ calls = [p \in Callers |-> Idle]
    /\ connections = 0
    /\ journal = NoJournal
    /\ startup = Started
    /\ schema = Tables

\* Time passes.
Tick ==
    /\ clock < MaxClock
    /\ clock' = clock + 1
    /\ UNCHANGED <<weather_data, files, response, upstream, fetched,
                   processed, calls, connections, journal, startup, schema>>

\* GET /weather-report?lat=..&lon=.. answered with the upstream response api.
WeatherReportWith(lat, lon, api) ==
    LET out == weather_report_endpoint(lat, lon, api, weather_data, clock)
    IN  /\ Len(out.table) <= MaxRows
        /\ weather_data' = out.table
        /\ response' = out.response
        /\ upstream' = IF out.fetched THEN api ELSE NoApi
        /\ fetched' = out.fetched
        /\ processed' = out.processed
        /\ UNCHANGED <<clock, files, calls, connections, journal,
                       startup, schema>>

WeatherReport ==
    \E args \in RequestArgs, api \in Responses(clock) :
        WeatherReportWith(args[1], args[2], api)

\* GET /export/excel?lat=..&lon=.., the rendering and the write raising as
\* fault says.
ExportExcelWith(lat, lon, fault) ==
    \E out \in excel_export_endpoint(lat, lon, weather_data, clock, fault,
                                     files.excel) :
        /\ response' = out.response
        /\ files' = [files EXCEPT !.excel = out.file]
        /\ upstream' = NoApi
        /\ fetched' = FALSE
        /\ processed' = NotProcessed
        /\ UNCHANGED <<weather_data, clock, calls, connections, journal,
                       startup, schema>>

\* GET /export/pdf?lat=..&lon=..
ExportPdfWith(lat, lon, fault) ==
    \E out \in pdf_export_endpoint(lat, lon, weather_data, clock, fault,
                                   files.pdf) :
        /\ response' = out.response
        /\ files' = [files EXCEPT !.pdf = out.file]
        /\ upstream' = NoApi
        /\ fetched' = FALSE
        /\ processed' = NotProcessed
        /\ UNCHANGED <<weather_data, clock, calls, connections, journal,
                       startup, schema>>

\* Export requests whose rendering and write do not raise.
ExportExcel == \E args \in ExportArgs : ExportExcelWith(args[1], args[2], "none")

ExportPdf == \E args \in ExportArgs : ExportPdfWith(args[1], args[2], "none")

\* What may go wrong in an export: an exception before the file is opened,
\* or one once it is.
ExportFaults == {"render", "write"}

\* Export requests whose rendering or write raises.
ExportExcelFailing ==
    \E fault \in ExportFaults : ExportExcelWith(Absent, Absent, fault)

ExportPdfFailing ==
    \E fault \in ExportFaults : ExportPdfWith(Absent, Absent, fault)

\* GET /weather-report with a valid coordinate, answered with the response
\* the upstream API is serving.
WeatherReportServed ==
    \E args \in GoodArgs : WeatherReportWith(args[1], args[2], upstream)

\* GET /weather-report with a valid coordinate and a well-formed series.
Ingest ==
    \E args \in GoodArgs, api \in HourlyResponses(clock) :
        WeatherReportWith(args[1], args[2], api)

\* Ingestion: every request and upstream response, handled back to back
\* within one clock tick.
Next == WeatherReport

Spec == Init /\ [][Next]_vars

\* Export: exports between successful ingestions, as time passes.  A failed
\* /weather-report leaves the table, the clock and the files as they are, so
\* the exports after it are those before it.
NextExport == Tick \/ Ingest \/ ExportExcel \/ ExportPdf

SpecExport == Init /\ [][NextExport]_vars

\* GET /weather-report with a valid coordinate, the series served starting
\* at the edge of the window: its first hour leaves the window with the
\* next tick.
IngestExpiring ==
    \E args \in GoodArgs, n \in 1..MaxLen :
        WeatherReportWith(args[1], args[2],
            Api(HourlySeries(Hour(clock) - ExportDays * HoursPerDay, n),
                [i \in 1..n |-> Num(5)], [i \in 1..n |-> Num(7)]))

\* Export under faults: exports that succeed and exports that fail, between
\* successful ingestions, as time passes.
NextExportFaults ==
    \/ Tick
    \/ IngestExpiring
    \/ ExportExcel
    \/ ExportPdf
    \/ ExportExcelFailing
    \/ ExportPdfFailing

SpecExportFaults == Init /\ [][NextExportFaults]_vars

\* Normalisation: the upstream API serves one response, of any shape, to the
\* requests with a valid coordinate.
InitServed ==
    /\ weather_data = << >>
    /\ clock = 0
    /\ files = [excel |-> NoFile, pdf |-> NoFile]
    /\ response = NoResponse
    /\ upstream \in ServedResponses
    /\ fetched = FALSE
    /\ processed = NotProcessed
    /\ calls = [p \in Callers |-> Idle]
    /\ connections = 0
    /\ journal = NoJournal
    /\ startup = Started
    /\ schema = Tables

NextServed == WeatherReportServed

SpecServed == InitServed /\ [][NextServed]_vars

\* ------------------------------------------------- ingestion, step by step
\* The write lock is free for caller p.  sqlite admits one write transaction:
\* the INSERT of another connection waits in the busy handler until the
\* holder commits or rolls back.
LockFree(j, p) == j.holder \in {0, p}

\* execute_insert without the write lock: the statement starts a transaction
\* of its own over the one in progress, whose uncommitted rows are lost.
execute_insert_unlocked(d, j, p, clk) ==
    IF d.timestamp.isnull
    THEN [blocked |-> FALSE, raised |-> TRUE,
          error |-> "NOT NULL constraint failed: weather_data.timestamp",
          journal |-> [holder |-> p, rows |-> << >>]]
    ELSE [blocked |-> FALSE, raised |-> FALSE, error |-> "",
          journal |-> [holder |-> p,
                       rows |-> IF j.holder = p
                                THEN Append(j.rows, StoredRow(d, clk))
                                ELSE <<StoredRow(d, clk)>>]]

\* One statement of cursor.executemany on the connection of caller p: it
\* takes the write lock, then inserts the row into the open transaction or
\* fails on timestamp TEXT NOT NULL, the transaction staying open.
execute_insert(d, j, p, clk) ==
    IF ~LockFree(j, p)
    THEN [blocked |-> TRUE, raised |-> FALSE, error |-> "", journal |-> j]
    ELSE IF d.timestamp.isnull
    THEN [blocked |-> FALSE, raised |-> TRUE,
          error |-> "NOT NULL constraint failed: weather_data.timestamp",
          journal |-> [holder |-> p, rows |-> j.rows]]
    ELSE [blocked |-> FALSE, raised |-> FALSE, error |-> "",
          journal |-> [holder |-> p,
                       rows |-> Append(j.rows, StoredRow(d, clk))]]

\* conn.commit(): the rows of the transaction join the table, in id order.
commit(j, s) == [table |-> s \o j.rows, journal |-> NoJournal]

\* The except branch committing what was inserted before the failure.
rollback_keeping_rows(j, s, p) ==
    [table |-> IF j.holder = p THEN s \o j.rows ELSE s,
     journal |-> IF j.holder = p THEN NoJournal ELSE j]

\* conn.rollback() on the connection of caller p.
rollback(j, s, p) ==
    [table |-> s, journal |-> IF j.holder = p THEN NoJournal ELSE j]

\* A series of n hours whose last timestamp is null.
BrokenSeries(h, n) == [i \in 1..n |-> IF i = n THEN Null ELSE Num(h + i - 1)]

\* Upstream responses served to the concurrent callers: the API unreachable,
\* no time array, a series whose last timestamp is null, and well-formed
\* series of one hour and of MaxLen hours.
ConcResponses(clk) ==
    {NoApi, Api(<< >>, <<Num(5)>>, <<Num(7)>>),
     Api(BrokenSeries(Hour(clk), MaxLen), [i \in 1..MaxLen |-> Num(5)],
         [i \in 1..MaxLen |-> Num(7)]),
     Api(HourlySeries(Hour(clk), 1), <<Num(5)>>, <<Num(7)>>),
     Api(HourlySeries(Hour(clk), MaxLen), [i \in 1..MaxLen |-> Num(5)],
         [i \in 1..MaxLen |-> Num(7)])}

\* The caller p moves to the state c.
Becomes(p, c) == calls' = [calls EXCEPT ![p] = c]

\* The stage fetch ran twice when the upstream request failed.
FetchRetrying(p) ==
    \E args \in GoodArgs, api \in ConcResponses(clock) :
        /\ calls[p].pc = "idle"
        /\ Becomes(p, [Idle EXCEPT
               !.pc = IF api.ok THEN "normalize" ELSE "respond",
               !.endpoint = "weather-report",
               !.lat = args[1], !.lon = args[2], !.api = api,
               !.stages = IF api.ok THEN <<"fetch">> ELSE <<"fetch", "fetch">>,
               !.error = IF api.ok THEN "" ELSE "Failed to fetch weather data"])
        /\ UNCHANGED <<weather_data, clock, files, response, upstream, fetched,
                       processed, connections, journal, startup, schema>>

\* fetch_and_store_weather_data(latitude, longitude), step 1: one request to
\* the upstream API; a failure raises into the except branch.
Fetch(p) ==
    \E args \in GoodArgs, api \in ConcResponses(clock) :
        /\ calls[p].pc = "idle"
        /\ Becomes(p, [Idle EXCEPT
               !.pc = IF api.ok THEN "normalize" ELSE "respond",
               !.endpoint = "weather-report",
               !.lat = args[1], !.lon = args[2], !.api = api,
               !.stages = <<"fetch">>,
               !.error = IF api.ok THEN "" ELSE "Failed to fetch weather data"])
        /\ UNCHANGED <<weather_data, clock, files, response, upstream, fetched,
                       processed, connections, journal, startup, schema>>

\* Step 2: process_weather_data.
Normalize(p) ==
    LET c == calls[p]
        out == process_weather_data(c.api, c.lat.val, c.lon.val)
    IN  /\ c.pc = "normalize"
        /\ Becomes(p, [c EXCEPT
               !.pc = IF out.raised THEN "respond" ELSE "persist",
               !.stages = Append(c.stages, "normalize"),
               !.data = out.data, !.error = out.error])
        /\ UNCHANGED <<weather_data, clock, files, response, upstream, fetched,
                       processed, connections, journal, startup, schema>>

\* Step 3, insert_weather_data: get_db_connection().
Connect(p) ==
    LET c == calls[p]
    IN  /\ c.pc = "persist"
        /\ Becomes(p, [c EXCEPT !.pc = "insert", !.at = 1,
                                !.stages = Append(c.stages, "persist")])
        /\ connections' = connections + 1
        /\ UNCHANGED <<weather_data, clock, files, response, upstream, fetched,
                       processed, journal, startup, schema>>

\* The next statement of executemany; it waits while another caller holds
\* the write lock.
InsertRow(p) ==
    LET c == calls[p]
        out == execute_insert(c.data[c.at], journal, p, clock)
    IN  /\ c.pc = "insert"
        /\ ~out.blocked
        /\ journal' = out.journal
        /\ Becomes(p, [c EXCEPT
               !.pc = IF out.raised THEN "rollback"
                      ELSE IF c.at = Len(c.data) THEN "commit" ELSE "insert",
               !.at = c.at + 1, !.error = out.error])
        /\ UNCHANGED <<weather_data, clock, files, response, upstream, fetched,
                       processed, connections, startup, schema>>

\* conn.commit() and return cursor.rowcount.
Commit(p) ==
    LET c == calls[p]
        out == commit(journal, weather_data)
    IN  /\ c.pc = "commit"
        /\ weather_data' = out.table
        /\ journal' = out.journal
        /\ Becomes(p, [c EXCEPT !.pc = "close", !.rowcount = Len(c.data)])
        /\ UNCHANGED <<clock, files, response, upstream, fetched, processed,
                       connections, startup, schema>>

\* except: conn.rollback(); raise e
Rollback(p) ==
    LET c == calls[p]
        out == rollback(journal, weather_data, p)
    IN  /\ c.pc = "rollback"
        /\ weather_data' = out.table
        /\ journal' = out.journal
        /\ Becomes(p, [c EXCEPT !.pc = "close"])
        /\ UNCHANGED <<clock, files, response, upstream, fetched, processed,
                       connections, startup, schema>>

\* finally: conn.close()
Close(p) ==
    LET c == calls[p]
    IN  /\ c.pc = "close"
        /\ connections' = connections - 1
        /\ Becomes(p, [c EXCEPT !.pc = "respond"])
        /\ UNCHANGED <<weather_data, clock, files, response, upstream, fetched,
                       processed, journal, startup, schema>>

\* The result dict of fetch_and_store_weather_data and the response of
\* weather_report_endpoint: 200 for success, 500 for an error result.
Respond(p) ==
    LET c == calls[p]
        ok == c.error = ""
    IN  /\ c.pc = "respond"
        /\ c.endpoint = "weather-report"
        /\ Becomes(p, [c EXCEPT !.pc = "done",
                                !.status = IF ok THEN 200 ELSE 500])
        /\ response' = Response("weather-report", c.lat, c.lon,
                                IF ok THEN 200 ELSE 500,
                                IF ok THEN "success" ELSE "error", c.error,
                                IF ok THEN Len(c.data) ELSE 0, NoRows)
        /\ UNCHANGED <<weather_data, clock, files, upstream, fetched,
                       processed, connections, journal, startup, schema>>

\* Concurrent ingestion: each caller sends one /weather-report request with
\* a valid coordinate; the steps of the two requests interleave.
NextConc ==
    \E p \in Callers :
        \/ Fetch(p)
        \/ Normalize(p)
        \/ Connect(p)
        \/ InsertRow(p)
        \/ Commit(p)
        \/ Rollback(p)
        \/ Close(p)
        \/ Respond(p)

SpecConc == Init /\ [][NextConc]_vars

\* --------------------------------------------------- exports, step by step
\* The artifact an export endpoint writes and reads back.
Kind(c) == IF c.endpoint = "export/excel" THEN "excel" ELSE "pdf"

\* Another caller has the artifact of caller p open for writing.
OpenElsewhere(p) ==
    \E q \in Callers \ {p} :
        calls[q].pc = "write" /\ Kind(calls[q]) = Kind(calls[p])

\* generate_excel_export() / generate_pdf_report() up to the sorted frame:
\* the data selection raising ValueError answers 500 at once.
Select(p) ==
    \E endpoint \in {"export/excel", "export/pdf"} :
        \E g \in IF endpoint = "export/excel"
                 THEN generate_excel_export(Null, Null, weather_data, clock,
                                            "none", files.excel)
                 ELSE generate_pdf_report(Null, Null, weather_data, clock,
                                          "none", files.pdf) :
            LET out == ExportResponse(endpoint,
                                      IF endpoint = "export/excel"
                                      THEN "Excel export failed: "
                                      ELSE "PDF export failed: ",
                                      Absent, Absent, g)
            IN  /\ calls[p].pc = "idle"
                /\ Becomes(p, [Idle EXCEPT
                       !.pc = IF g.raised THEN "done" ELSE "open",
                       !.endpoint = endpoint, !.data = g.df,
                       !.error = g.error,
                       !.status = IF g.raised THEN 500 ELSE 0])
                /\ response' = IF g.raised THEN out.response ELSE response
                /\ UNCHANGED <<weather_data, clock, files, upstream, fetched,
                               processed, connections, journal,
                               startup, schema>>

\* pd.ExcelWriter(excel_file_path) / write_pdf(pdf_file_path) open the fixed
\* path for writing, which truncates the file there.
Open(p) ==
    LET c == calls[p]
    IN  /\ c.pc = "open"
        /\ files' = [files EXCEPT ![Kind(c)] = PartialFile]
        /\ Becomes(p, [c EXCEPT !.pc = "write"])
        /\ UNCHANGED <<weather_data, clock, response, upstream, fetched,
                       processed, connections, journal, startup, schema>>

\* The content is written and the file closed.  Two writers of one path
\* race: the file is that of the last to close, or a mix of both.
Write(p) ==
    LET c == calls[p]
    IN  /\ c.pc = "write"
        /\ \E f \in IF OpenElsewhere(p) THEN {File(c.data), PartialFile}
                    ELSE {File(c.data)} :
              files' = [files EXCEPT ![Kind(c)] = f]
        /\ Becomes(p, [c EXCEPT !.pc = "check"])
        /\ UNCHANGED <<weather_data, clock, response, upstream, fetched,
                       processed, connections, journal, startup, schema>>

\* if not os.path.exists(file_path): 500; os.path.getsize(file_path)
Check(p) ==
    LET c == calls[p]
        found == files[Kind(c)].exists
    IN  /\ c.pc = "check"
        /\ Becomes(p, [c EXCEPT !.pc = IF found THEN "send" ELSE "done",
                                !.status = IF found THEN 0 ELSE 500])
        /\ response' = IF found THEN response
                       ELSE Response(c.endpoint, Absent, Absent, 500, "error",
                                     "Failed to generate file", 0, NoRows)
        /\ UNCHANGED <<weather_data, clock, files, upstream, fetched,
                       processed, connections, journal, startup, schema>>

\* send_file(file_path): the response carries what the path holds now.
Send(p) ==
    LET c == calls[p]
        f == files[Kind(c)]
    IN  /\ c.pc = "send"
        /\ Becomes(p, [c EXCEPT !.pc = "done", !.status = 200, !.file = f])
        /\ response' = Response(c.endpoint, Absent, Absent, 200, "file", "",
                                Len(f.rows), f.rows)
        /\ UNCHANGED <<weather_data, clock, files, upstream, fetched,
                       processed, connections, journal, startup, schema>>

\* GET /weather-report?lat=90&lon=180 served the current hour.
IngestHour ==
    WeatherReportWith(NumArg(90), NumArg(180),
                      Api(HourlySeries(Hour(clock), 1), <<Num(5)>>, <<Num(7)>>))

\* Concurrent exports: each caller sends one export request; their steps
\* interleave with each other and with ingestions.
NextFiles ==
    \/ IngestHour
    \/ \E p \in Callers :
          \/ Select(p)
          \/ Open(p)
          \/ Write(p)
          \/ Check(p)
          \/ Send(p)

SpecFiles == Init /\ [][NextFiles]_vars

\* ------------------------------------------------------- store operations
\* What may go wrong under a store operation: sqlite3.connect raising
\* (unable to open database file) or a statement raising (file is not a
\* database, disk I/O error).
Faults == {"none", "connect", "execute"}

FaultError(fault) ==
    IF fault = "connect" THEN "unable to open database file"
    ELSE "file is not a database"

\* Connections opened by get_db_connection(): none when connect raises.
Opened(fault) == IF fault = "connect" THEN 0 ELSE 1

\* The scope without its finally: conn.close() runs on the success path only.
ScopedConnectionNoFinally(fault) ==
    Opened(fault) - (IF fault = "none" THEN 1 ELSE 0)

\* conn = get_db_connection(); try: ... finally: conn.close() -- the
\* connections the operation leaves open: whatever was opened is closed.
ScopedConnection(fault) ==
    Opened(fault) - (IF fault = "connect" THEN 0 ELSE 1)

\* check_db_connection: everything is inside try, conn.close() follows the
\* SELECT 1 and there is no finally; any exception returns False.
check_db_connection(fault) ==
    [result |-> fault = "none",
     open |-> Opened(fault) - (IF fault = "none" THEN 1 ELSE 0)]

\* init_db as DROP TABLE followed by CREATE TABLE.
init_db_recreating(fault, s) ==
    [raised |-> fault = "connect", error |-> "", table |-> << >>,
     open |-> ScopedConnection(fault)]

\* init_db: CREATE TABLE IF NOT EXISTS leaves an existing table alone; an
\* exception of the statement is printed and swallowed, one of
\* get_db_connection() (outside the try) propagates.
init_db(fault, s) ==
    [raised |-> fault = "connect",
     error |-> IF fault = "connect" THEN FaultError(fault) ELSE "",
     table |-> s, open |-> ScopedConnection(fault)]

\* insert_weather_data(data_list) under the fault: a raising connect or
\* statement leaves the table (rollback) and propagates.
insert_under(fault, data_list, s, clk) ==
    IF fault = "none"
    THEN insert_weather_data(data_list, s, clk)
    ELSE [raised |-> TRUE, error |-> FaultError(fault), rowcount |-> 0,
          table |-> s]

\* '-2 days' in get_last_48_hours_data
WindowDays == 2

\* ORDER BY timestamp DESC over the rows ids of s: every order SQL may give.
OrderByTimestampDesc(ids, s) ==
    LET desc == {f \in Perms(ids) :
                    \A i, j \in 1..Cardinality(ids) :
                        i < j => s[f[i]].timestamp >= s[f[j]].timestamp}
    IN  {[k \in 1..Cardinality(ids) |-> Columns(s[f[k]])] : f \in desc}

\* get_last_48_hours_data(): all locations, within the window.
get_last_48_hours_data(s, clk) ==
    OrderByTimestampDesc({i \in 1..Len(s) :
                             InWindow(s[i].timestamp, clk, WindowDays)}, s)

\* get_all_weather_data()
get_all_weather_data(s) == OrderByTimestampDesc(1..Len(s), s)

\* The outcome of a store operation, kept as the last response: its rows
\* when it returned, its error when it raised.
Returned(op, rows) ==
    Response(op, Absent, Absent, 0, "returned", "", Len(rows), rows)

Raised(op, error) == Response(op, Absent, Absent, 0, "raised", error, 0, NoRows)

\* A store operation ends with the response r, the table s and n more
\* connections open; no request is in flight.
StoreStep(r, s, n) ==
    /\ response' = r
    /\ weather_data' = s
    /\ connections' = connections + n
    /\ UNCHANGED <<clock, files, upstream, fetched, processed, calls, journal,
                   startup, schema>>

\* check_db_connection().  SELECT 1 reads no page of the database file and
\* raises for no state of it, so the statement fault is not drawn.
CheckDbConnection ==
    \E fault \in {"none", "connect"} :
        LET out == check_db_connection(fault)
        IN  StoreStep(Response("check_db_connection", Absent, Absent, 0,
                               IF out.result THEN "returned" ELSE "false",
                               "", 0, NoRows),
                      weather_data, out.open)

InitDb ==
    \E fault \in Faults :
        LET out == init_db(fault, weather_data)
        IN  StoreStep(IF out.raised THEN Raised("init_db", out.error)
                      ELSE Returned("init_db", NoRows),
                      out.table, out.open)

\* insert_weather_data(data_list) with the rows of a well-formed series.
InsertWeatherData ==
    \E fault \in Faults, args \in GoodArgs, api \in HourlyResponses(clock) :
        LET data == process_weather_data(api, args[1].val, args[2].val).data
            out == insert_under(fault, data, weather_data, clock)
        IN  /\ Len(out.table) <= MaxRows
            /\ StoreStep(IF out.raised
                         THEN Raised("insert_weather_data", out.error)
                         ELSE Response("insert_weather_data", args[1], args[2],
                                       0, "returned", "", out.rowcount, NoRows),
                         out.table, ScopedConnection(fault))

\* A query returning one of rowsets, or raising under the fault.
QueryStep(op, fault, rowsets) ==
    \E rows \in rowsets :
        StoreStep(IF fault = "none" THEN Returned(op, rows)
                  ELSE Raised(op, FaultError(fault)),
                  weather_data, ScopedConnection(fault))

GetLast48HoursData ==
    \E fault \in Faults :
        QueryStep("get_last_48_hours_data", fault,
                  get_last_48_hours_data(weather_data, clock))

GetAllWeatherData ==
    \E fault \in Faults :
        QueryStep("get_all_weather_data", fault,
                  get_all_weather_data(weather_data))

GetWeatherDataByLocation ==
    \E fault \in Faults, args \in GoodArgs :
        QueryStep("get_weather_data_by_location", fault,
                  get_weather_data_by_location(args[1].val, args[2].val,
                                               ExportDays, weather_data, clock))

GetLatestLocationData ==
    \E fault \in Faults :
        QueryStep("get_latest_location_data", fault,
                  get_latest_location_data(weather_data, clock))

\* The store: its operations one after another, each under any fault, and
\* the exports that read it.
NextStore ==
    \/ CheckDbConnection
    \/ InitDb
    \/ InsertWeatherData
    \/ GetLast48HoursData
    \/ GetAllWeatherData
    \/ GetWeatherDataByLocation
    \/ GetLatestLocationData
    \/ ExportExcel
    \/ ExportPdf

SpecStore == Init /\ [][NextStore]_vars

\* ------------------------------------ initialize_database, attempt by attempt
\* sqlite's error for a statement on a table the file does not have.
NoSuchTable == "no such table: weather_data"

\* CREATE TABLE IF NOT EXISTS weather_data in init_db: the file has the
\* table afterwards unless the connect or the statement raised.
CreateTableIfNotExists(fault, sch) ==
    IF fault = "none" THEN sch \cup Tables ELSE sch

\* How init_db ended: the table is there, the exception of its statement was
\* printed and swallowed, or get_db_connection() raised.
InitEnded(fault, s) ==
    IF init_db(fault, s).raised THEN "raised"
    ELSE IF fault = "none" THEN "created" ELSE "swallowed"

\* The except clause sleeping after the last attempt as well.
except_sleeping_always(st) ==
    [st EXCEPT !.waited = @ + DATABASE_RETRY_DELAY, !.attempt = @ + 1]

\* except Exception: sleep and go on to the next attempt, or return False
\* after the last one.
except_clause(st) ==
    IF st.attempt < DATABASE_CONNECTION_RETRIES - 1
    THEN [st EXCEPT !.waited = @ + DATABASE_RETRY_DELAY, !.attempt = @ + 1]
    ELSE [st EXCEPT !.pc = "returned", !.result = FALSE]

\* initialize_database, one pass of its loop: check_db_connection returned
\* check and, when that is True, init_db ended as init.  init_db is inside
\* the try: when it raises, the attempt ends in the except clause like one
\* whose check failed.  The loop running out returns False.
initialize_database(st, check, init) ==
    IF st.attempt >= DATABASE_CONNECTION_RETRIES
    THEN [st EXCEPT !.pc = "returned", !.result = FALSE]
    ELSE LET made == [st EXCEPT !.outcomes =
                        Append(@, [check |-> check,
                                   init |-> IF check THEN init ELSE "skipped"])]
         IN  IF check /\ init # "raised"
             THEN [made EXCEPT !.pc = "returned", !.result = TRUE]
             ELSE except_clause(made)

\* A row stored by an earlier run of the service.
EarlierRows ==
    insert_weather_data(
        process_weather_data(Api(HourlySeries(0, 1), <<Num(5)>>, <<Num(7)>>),
                             90, 180).data, << >>, 0).table

\* The module is imported: the database file is new, or has the table, empty
\* or with rows, from an earlier run.
InitStartup ==
    /\ schema \in {{}, Tables}
    /\ weather_data \in (IF schema = {} THEN {<< >>} ELSE {<< >>, EarlierRows})
    /\ clock = 0
    /\ files = [excel |-> NoFile, pdf |-> NoFile]
    /\ response = NoResponse
    /\ upstream = NoApi
    /\ fetched = FALSE
    /\ processed = NotProcessed
    /\ calls = [p \in Callers |-> Idle]
    /\ connections = 0
    /\ journal = NoJournal
    /\ startup = Starting

\* One attempt of initialize_database, the connect of check_db_connection
\* and the connect or the statement of init_db raising or not.
Attempt ==
    /\ startup.pc = "loop"
    /\ \E cfault \in {"none", "connect"}, ifault \in Faults :
        LET check == check_db_connection(cfault)
            init == init_db(ifault, weather_data)
        IN  /\ startup' = initialize_database(startup, check.result,
                              InitEnded(ifault, weather_data))
            /\ schema' = IF check.result
                         THEN CreateTableIfNotExists(ifault, schema)
                         ELSE schema
            /\ weather_data' = IF check.result THEN init.table ELSE weather_data
            /\ connections' = connections + check.open
                              + (IF check.result THEN init.open ELSE 0)
            /\ UNCHANGED <<clock, files, response, upstream, fetched,
                           processed, calls, journal>>

\* insert_weather_data once the module is imported (app.py does not look at
\* what initialize_database returned): the INSERT raises on a file without
\* the table.
InsertAfterStartup ==
    /\ startup.pc = "returned"
    /\ \E args \in GoodArgs, api \in HourlyResponses(clock) :
        LET data == process_weather_data(api, args[1].val, args[2].val).data
            out == insert_weather_data(data, weather_data, clock)
        IN  IF "weather_data" \in schema
            THEN /\ Len(out.table) <= MaxRows
                 /\ StoreStep(Response("insert_weather_data", args[1], args[2],
                                       0, "returned", "", out.rowcount, NoRows),
                              out.table, 0)
            ELSE StoreStep(Raised("insert_weather_data", NoSuchTable),
                           weather_data, 0)

\* get_all_weather_data once the module is imported.
QueryAfterStartup ==
    /\ startup.pc = "returned"
    /\ IF "weather_data" \in schema
       THEN QueryStep("get_all_weather_data", "none",
                      get_all_weather_data(weather_data))
       ELSE StoreStep(Raised("get_all_weather_data", NoSuchTable),
                      weather_data, 0)

\* Startup, then the store in use.
NextStartup == Attempt \/ InsertAfterStartup \/ QueryAfterStartup

SpecStartup == InitStartup /\ [][NextStartup]_vars

\* The loop is not held up: each call returns or raises, time.sleep ends.
SpecStartupFair == SpecStartup /\ WF_vars(Attempt)

\* ------------------------------------------- ingestion of today's range
\* DAYS_TO_FETCH
DAYS_TO_FETCH == 2

\* The offsets of the server's local time from UTC, in hours.
ZoneOffsets == -12..14

\* datetime.now().date(): the server's local date, as a day number.
Today(clk, offset) == (Hour(clk) + offset) \div HoursPerDay

\* The hourly series the API serves for start_date..end_date: the hours
\* 00:00 of start_date to 23:00 of end_date, labelled in the local time of
\* the location whatever its offset.  Of these the last n are kept (all of
\* them when n reaches the length of the range): the window test is
\* monotone in the timestamp, so an earlier hour is selected only if these
\* are.
RangeSeries(start_date, end_date, n) ==
    LET first == start_date * HoursPerDay
        last == end_date * HoursPerDay + HoursPerDay - 1
        len == IF n < last - first + 1 THEN n ELSE last - first + 1
    IN  IF last < first THEN << >> ELSE HourlySeries(last - len + 1, len)

\* fetch_weather_data with end_date = today - DAYS_TO_FETCH.
fetch_ending_at_start(latitude, longitude, clk, offset, n) ==
    LET end_date == Today(clk, offset) - DAYS_TO_FETCH
        start_date == end_date - DAYS_TO_FETCH
        time == RangeSeries(start_date, end_date, n)
    IN  Api(time, [i \in 1..Len(time) |-> Num(5)],
            [i \in 1..Len(time) |-> Num(7)])

\* fetch_weather_data at clock clk on a server offset hours from UTC: the
\* response to the request for [today - DAYS_TO_FETCH, today].
fetch_weather_data(latitude, longitude, clk, offset, n) ==
    LET end_date == Today(clk, offset)
        start_date == end_date - DAYS_TO_FETCH
        time == RangeSeries(start_date, end_date, n)
    IN  Api(time, [i \in 1..Len(time) |-> Num(5)],
            [i \in 1..Len(time) |-> Num(7)])

\* The service starts at any tick of a day.
InitDay ==
    /\ weather_data = << >>
    /\ clock \in 0..(HoursPerDay * TicksPerHour - 1)
    /\ files = [excel |-> NoFile, pdf |-> NoFile]
    /\ response = NoResponse
    /\ upstream = NoApi
    /\ fetched = FALSE
    /\ processed = NotProcessed
    /\ calls = [p \in Callers |-> Idle]
    /\ connections = 0
    /\ journal = NoJournal
    /\ startup = Started
    /\ schema = Tables

\* GET /weather-report with a valid coordinate on a server in any time zone,
\* the API serving the range requested.
IngestToday ==
    \E args \in GoodArgs, offset \in ZoneOffsets :
        WeatherReportWith(args[1], args[2],
            fetch_weather_data(args[1].val, args[2].val, clock, offset,
                               MaxLen))

\* Ingestions of today's range and the exports issued right after them, at
\* any time of the day.
NextDay == IngestToday \/ ExportExcel \/ ExportPdf

SpecDay == InitDay /\ [][NextDay]_vars

\* =================================================================
\* Properties
\* =================================================================
IsNum(a) == a.kind = "num"

\* A numeric parameter outside [lo, hi].
OutOfRange(a, lo, hi) == IsNum(a) /\ (a.val < lo \/ a.val > hi)

\* A parameter that is missing or not a number.
MissingOrText(a) == a.kind \in {"absent", "empty", "text"}

ValidCoordinate(lat, lon) ==
    /\ IsNum(lat) /\ -90 <= lat.val /\ lat.val <= 90
    /\ IsNum(lon) /\ -180 <= lon.val /\ lon.val <= 180

\* C1: a /weather-report request whose lat is outside [-90, 90] or whose lon
\* is outside [-180, 180] is answered 400 and calls the upstream API not at
\* all, whatever the upstream would have served.
C1_OutOfRangeIs400 ==
    (/\ response.endpoint = "weather-report"
     /\ \/ OutOfRange(response.lat, -90, 90)
        \/ OutOfRange(response.lon, -180, 180))
    => /\ response.status = 400
       /\ ~fetched
       /\ upstream = NoApi
       /\ processed = NotProcessed

\* C1 witness: latitude -91 rejected with 400 and no upstream call.
C1_Witness ==
    /\ response.endpoint = "weather-report"
    /\ response.lat = NumArg(-91)
    /\ IsNum(response.lon)
    /\ response.status = 400
    /\ ~fetched

\* C2: a /weather-report request with lat or lon missing, non-numeric or out
\* of range leaves the table as it was before the request.
C2_RejectedLeavesTable ==
    [][(/\ response'.endpoint = "weather-report"
        /\ \/ MissingOrText(response'.lat)
           \/ MissingOrText(response'.lon)
           \/ OutOfRange(response'.lat, -90, 90)
           \/ OutOfRange(response'.lon, -180, 180))
       => weather_data' = weather_data]_vars

\* C2 witness: a request rejected for its longitude after rows were stored.
C2_Witness ==
    /\ response.endpoint = "weather-report"
    /\ response.kind = "validation"
    /\ OutOfRange(response.lon, -180, 180)
    /\ weather_data # << >>

\* C3: a /weather-report request with a valid coordinate is answered either
\* 200 with status success and records_count the length of the upstream time
\* array, or 500 with an error message; never 200 with records_count 0 for a
\* non-empty series.
C3_CountOrError ==
    (/\ response.endpoint = "weather-report"
     /\ ValidCoordinate(response.lat, response.lon))
    => /\ \/ /\ response.status = 200
             /\ response.kind = "success"
             /\ upstream.ok
             /\ response.records_count = Len(upstream.time)
          \/ /\ response.status = 500
             /\ response.kind = "error"
             /\ response.error # ""
       /\ ~(/\ response.status = 200
            /\ response.records_count = 0
            /\ upstream.time # << >>)

\* C3 witness: 200 for a series whose first temperature is null, counted in
\* full.
C3_Witness ==
    /\ response.endpoint = "weather-report"
    /\ response.status = 200
    /\ Len(upstream.time) = MaxLen
    /\ upstream.temperature_2m[1].isnull
    /\ response.records_count = MaxLen

\* Rows of the table s stored for the coordinate (lat, lon).
RowsAt(s, lat, lon) ==
    {i \in 1..Len(s) : s[i].latitude = lat /\ s[i].longitude = lon}

\* C4: every successful ingestion of a series of n hours adds exactly n rows
\* for its coordinate, whether or not rows with the same (lat, lon, timestamp)
\* are stored already; so the same series ingested twice leaves 2n rows.
C4_EachIngestionAddsN ==
    [][(response'.endpoint = "weather-report" /\ response'.status = 200)
       => /\ Len(weather_data') = Len(weather_data) + Len(upstream'.time)
          /\ Cardinality(RowsAt(weather_data', response'.lat.val,
                                response'.lon.val))
             = Cardinality(RowsAt(weather_data, response'.lat.val,
                                  response'.lon.val))
               + Len(upstream'.time)
          /\ SubSeq(weather_data', 1, Len(weather_data)) = weather_data]_vars

\* C4 witness: the same one-hour series ingested twice for one coordinate,
\* two equal rows stored.
C4_Witness ==
    /\ response.endpoint = "weather-report"
    /\ response.status = 200
    /\ Len(upstream.time) = 1
    /\ Len(weather_data) = 2
    /\ weather_data[1] = weather_data[2]

\* The coordinate of the most recent successful ingestion: that of the row
\* with the highest id.
LastIngested(s) == <<s[Len(s)].latitude, s[Len(s)].longitude>>

\* C5 (as claimed): whatever was ingested before, get_latest_location_data
\* returns only rows of the coordinate ingested last.
C5_LatestIsLastIngested ==
    weather_data # << >>
    => \A data \in get_latest_location_data(weather_data, clock) :
          \A k \in 1..Len(data) :
              <<data[k].latitude, data[k].longitude>> = LastIngested(weather_data)

\* The three arrays are present, non-empty and of one length.
ParallelArrays(api) ==
    /\ api.ok /\ api.hourly /\ api.keys = HourlyKeys
    /\ api.time # << >>
    /\ Len(api.temperature_2m) = Len(api.time)
    /\ Len(api.relative_humidity_2m) = Len(api.time)

\* The reading v as it is to be stored: 0.0 for null, else unchanged.
AsStored(v) == IF v = Null THEN 0 ELSE v.val

\* C6: for non-empty temperature, humidity and time arrays of one length,
\* process_weather_data builds one row per timestamp, a null reading as 0.0
\* and every other reading unchanged; unless a timestamp is null the rows are
\* inserted, in that order.
C6_NullReadingsStoredAsZero ==
    (response.endpoint = "weather-report" /\ ParallelArrays(upstream))
    => LET n == Len(upstream.time)
           base == Len(weather_data) - n
       IN  /\ ~processed.raised
           /\ Len(processed.data) = n
           /\ \A i \in 1..n :
                /\ processed.data[i].timestamp = upstream.time[i]
                /\ processed.data[i].temperature_2m
                   = AsStored(upstream.temperature_2m[i])
                /\ processed.data[i].relative_humidity_2m
                   = AsStored(upstream.relative_humidity_2m[i])
           /\ (\A i \in 1..n : upstream.time[i] # Null)
              => /\ response.status = 200
                 /\ response.records_count = n
                 /\ base >= 0
                 /\ \A i \in 1..n :
                      /\ weather_data[base + i].timestamp = upstream.time[i].val
                      /\ weather_data[base + i].temperature_2m
                         = AsStored(upstream.temperature_2m[i])
                      /\ weather_data[base + i].relative_humidity_2m
                         = AsStored(upstream.relative_humidity_2m[i])

\* C6 witness: a series whose first temperature and last humidity are null,
\* stored in full with 0 in their places and 5 and 7 kept.
C6_Witness ==
    /\ response.endpoint = "weather-report"
    /\ response.status = 200
    /\ Len(upstream.time) = MaxLen
    /\ upstream.temperature_2m[1] = Null
    /\ upstream.temperature_2m[MaxLen] = Num(5)
    /\ upstream.relative_humidity_2m[1] = Num(7)
    /\ upstream.relative_humidity_2m[MaxLen] = Null
    /\ Len(weather_data) = MaxLen
    /\ weather_data[1].temperature_2m = 0
    /\ weather_data[1].relative_humidity_2m = 7
    /\ weather_data[MaxLen].temperature_2m = 5
    /\ weather_data[MaxLen].relative_humidity_2m = 0

IsExport(r) == r.endpoint \in {"export/excel", "export/pdf"}

\* The observation of a stored row: the five exported columns.
Observation(r) ==
    [timestamp |-> r.timestamp, latitude |-> r.latitude,
     longitude |-> r.longitude, temperature_2m |-> r.temperature_2m,
     relative_humidity_2m |-> r.relative_humidity_2m]

\* The timestamp ts lies within the 48 hours before the clock clk.
Within48Hours(ts, clk) == ts * TicksPerHour >= clk - 48 * TicksPerHour

\* The stored rows of (lat, lon) within the last 48 hours.
WindowRowsAt(lat, lon) ==
    {i \in 1..Len(weather_data) :
        /\ weather_data[i].latitude = lat
        /\ weather_data[i].longitude = lon
        /\ Within48Hours(weather_data[i].timestamp, clock)}

\* rows holds exactly the observations of the stored rows ids, each as often
\* as it is stored.
SameRows(rows, ids) ==
    /\ Len(rows) = Cardinality(ids)
    /\ \A i \in ids :
          Cardinality({k \in 1..Len(rows) : rows[k] = Observation(weather_data[i])})
          = Cardinality({j \in ids : Observation(weather_data[j])
                                      = Observation(weather_data[i])})

\* The rows whose insertion time is the latest.
NewestRows ==
    {i \in 1..Len(weather_data) :
        \A j \in 1..Len(weather_data) :
            weather_data[j].created_at <= weather_data[i].created_at}

\* rows are the window rows of the coordinate of a newest row.
RowsOfLatestLocation(rows) ==
    \E i \in NewestRows :
        SameRows(rows, WindowRowsAt(weather_data[i].latitude,
                                    weather_data[i].longitude))

NoDataErrors ==
    {"Excel export failed: No weather data available for export for the latest location",
     "PDF export failed: No weather data available for PDF report for the latest location"}

ExportStep == IsExport(response') /\ clock' = clock

\* C8 (as claimed): an export request that supplies lat and lon exports the
\* rows of get_weather_data_by_location(lat, lon, 2 days), one that supplies
\* none those of get_latest_location_data.
C8_RequestSelectsLocation ==
    [][(ExportStep /\ response'.status = 200)
       => IF IsNum(response'.lat) /\ IsNum(response'.lon)
          THEN SameRows(response'.rows,
                        WindowRowsAt(response'.lat.val, response'.lon.val))
          ELSE RowsOfLatestLocation(response'.rows)]_vars

\* C8 (amended): the export endpoints call generate_excel_export() and
\* generate_pdf_report() without coordinates, so every export request,
\* whether or not it supplies lat and lon, exports the rows of
\* get_latest_location_data: the rows within 48 hours of the coordinate of a
\* most recently inserted row; it fails when there are none.
C8_ExportsSelectLatest ==
    [][ExportStep
       => /\ response'.status = 200
             => /\ RowsOfLatestLocation(response'.rows)
                /\ response'.rows # NoRows
          /\ response'.status # 200
             => /\ response'.status = 500
                /\ \/ weather_data = << >>
                   \/ \E i \in NewestRows :
                         WindowRowsAt(weather_data[i].latitude,
                                      weather_data[i].longitude) = {}]_vars

\* C8 witness: an export request for (90, 180) answered with the rows of the
\* latest location (-90, -180), while rows of (90, 180) are in the window.
C8_Witness ==
    /\ IsExport(response)
    /\ response.status = 200
    /\ response.lat = NumArg(90)
    /\ response.lon = NumArg(180)
    /\ response.rows[1].latitude = -90
    /\ WindowRowsAt(90, 180) # {}

\* The last request was a successful ingestion.
Ingested(r) == r.endpoint = "weather-report" /\ r.status = 200

OnlyBatchInWindow(n) ==
    /\ Len(weather_data) = n
    /\ \A i \in 1..Len(weather_data) :
          Within48Hours(weather_data[i].timestamp, clock)

C10_SheetAscending ==
    /\ (response.endpoint = "export/excel" /\ response.status = 200)
       => \A i, j \in 1..Len(response.rows) :
             i < j => response.rows[i].timestamp <= response.rows[j].timestamp
    /\ \A data \in get_latest_location_data(weather_data, clock) :
          \A i, j \in 1..Len(data) :
             i < j => data[i].timestamp >= data[j].timestamp

\* C10 witness: a sheet of two rows in ascending order whose query result is
\* in the opposite order.
C10_Witness ==
    /\ response.endpoint = "export/excel"
    /\ response.status = 200
    /\ Len(response.rows) >= 2
    /\ response.rows[1].timestamp < response.rows[2].timestamp
    /\ \E data \in get_latest_location_data(weather_data, clock) :
          Len(data) >= 2 /\ data[1].timestamp > data[2].timestamp

\* The upstream response api is a well-formed series: three arrays of one
\* length and no null timestamp.
WellFormed(api) ==
    ParallelArrays(api) /\ \A i \in 1..Len(api.time) : api.time[i] # Null

\* The rows of the batch of the call c as they are stored.
Batch(c) == [i \in 1..Len(c.data) |-> StoredRow(c.data[i], clock)]

C12_AllOrNothing ==
    [][/\ weather_data' # weather_data
          => \E p \in Callers :
                /\ calls[p].pc = "commit"
                /\ calls'[p].pc = "close"
                /\ calls'[p].rowcount = Len(calls[p].data)
                /\ weather_data' = weather_data \o Batch(calls[p])
       /\ \A p \in Callers :
             (calls[p].pc = "rollback" /\ calls'[p].pc # "rollback")
             => /\ weather_data' = weather_data
                /\ journal' = NoJournal
                /\ calls'[p].error # ""
       /\ \A p \in Callers :
             (calls[p].pc = "respond" /\ calls'[p].pc = "done"
              /\ calls[p].error # "")
             => response'.status = 500 /\ response'.error = calls[p].error]_vars

\* C12 witness: a batch of MaxLen rows failed at its last row, after the
\* rows before it were inserted; the table holds the batch of the other
\* caller only.
C12_Witness ==
    \E p, q \in Callers :
        /\ calls[p].pc = "done"
        /\ calls[p].error = "NOT NULL constraint failed: weather_data.timestamp"
        /\ calls[p].at = MaxLen + 1
        /\ MaxLen > 1
        /\ calls[q].pc = "done"
        /\ calls[q].status = 200
        /\ weather_data = Batch(calls[q])

\* C13 (as claimed): the file of every export answered 200 is complete and
\* holds the rows that request selected, however export requests interleave.
C13_ServedFileIsOwn ==
    \A p \in Callers :
        (calls[p].pc = "done" /\ IsExport(calls[p]) /\ calls[p].status = 200)
        => calls[p].file = File(calls[p].data)

\* C14 (as claimed): every row of a successful export has a timestamp within
\* the 48 hours before the export: not earlier than now - 48 h, not later
\* than now.
C14_RowsWithinLast48Hours ==
    [][(ExportStep /\ response'.status = 200)
       => \A k \in 1..Len(response'.rows) :
             /\ response'.rows[k].timestamp * TicksPerHour
                >= clock - 48 * TicksPerHour
             /\ response'.rows[k].timestamp * TicksPerHour <= clock]_vars

\* C15: stored observations are never updated and never deleted: every
\* operation on the store (initialisation, insert, the four queries, the
\* exports, the connection check), failing or not, leaves every stored row
\* in its place with its values, so the row count never decreases.
C15_RowsNeverChange ==
    [][/\ Len(weather_data') >= Len(weather_data)
       /\ SubSeq(weather_data', 1, Len(weather_data)) = weather_data]_vars

\* C15 witness: init_db ran on a table of MaxRows rows, which it still holds.
C15_Witness ==
    /\ response.endpoint = "init_db"
    /\ response.kind = "returned"
    /\ Len(weather_data) = MaxRows

LacksArray(api) ==
    \/ ~api.hourly
    \/ \E k \in HourlyKeys : k \notin api.keys \/ api[k] = << >>

\* C16: an ingestion whose upstream response lacks a non-empty time,
\* temperature or humidity array is answered 500 with the error result
\* 'Invalid API response: Missing required data fields' and inserts no row.
C16_MissingArrayIsInvalidResponse ==
    (response.endpoint = "weather-report" /\ upstream.ok
     /\ LacksArray(upstream))
    => /\ response.status = 500
       /\ response.kind = "error"
       /\ response.error = "Invalid API response: Missing required data fields"
       /\ response.records_count = 0
       /\ processed.raised
       /\ weather_data = << >>

\* C16 witness: time and temperature arrays of MaxLen hours and an empty
\* humidity array, answered 500.
C16_Witness ==
    /\ response.endpoint = "weather-report"
    /\ response.status = 500
    /\ upstream.hourly /\ upstream.keys = HourlyKeys
    /\ Len(upstream.time) = MaxLen
    /\ Len(upstream.temperature_2m) = MaxLen
    /\ upstream.relative_humidity_2m = << >>

\* The coordinate value v written as its magnitude and a hemisphere letter:
\* neg when v is negative, pos otherwise.
HemisphereText(v, pos, neg) ==
    [minus |-> FALSE, digits |-> IF v < 0 THEN -v ELSE v,
     letter |-> IF v < 0 THEN neg ELSE pos]

\* The report of the successful /export/pdf just answered.
PdfAnswered == response.endpoint = "export/pdf" /\ response.status = 200

\* C17 (as claimed): the location in the metadata of the PDF report carries
\* hemisphere letters: S for a negative latitude and N otherwise, W for a
\* negative longitude and E otherwise.
C17_HemisphereLetters ==
    PdfAnswered
    => LET doc == PdfReport(response.rows)
       IN  /\ doc.latitude
              = HemisphereText(response.rows[1].latitude, "N", "S")
           /\ doc.longitude
              = HemisphereText(response.rows[1].longitude, "E", "W")

\* C17 (amended): the location in the metadata of the PDF report is the
\* signed latitude and the signed longitude of the exported rows, each
\* followed by the degree sign and no hemisphere letter: a negative value
\* keeps its minus sign.
C17_SignedDegrees ==
    PdfAnswered
    => LET doc == PdfReport(response.rows)
           lat == response.rows[1].latitude
           lon == response.rows[1].longitude
       IN  /\ \A k \in 1..Len(response.rows) :
                 /\ response.rows[k].latitude = lat
                 /\ response.rows[k].longitude = lon
           /\ doc.latitude.minus = (lat < 0)
           /\ doc.longitude.minus = (lon < 0)
           /\ doc.latitude.digits * (IF lat < 0 THEN -1 ELSE 1) = lat
           /\ doc.longitude.digits * (IF lon < 0 THEN -1 ELSE 1) = lon
           /\ doc.latitude.letter = ""
           /\ doc.longitude.letter = ""
           /\ doc.record_count = Len(response.rows)

\* C17 witness: the report for (-90, -180), printed as -90 and -180.
C17_Witness ==
    /\ PdfAnswered
    /\ response.rows[1].latitude = -90
    /\ response.rows[1].longitude = -180
    /\ PdfReport(response.rows).latitude.minus
    /\ PdfReport(response.rows).longitude.digits = 180

\* C18 (as claimed): /export/excel and /export/pdf requested while no data
\* is stored are answered 200 or 404.
C18_NoDataIs200Or404 ==
    (IsExport(response) /\ weather_data = << >>)
    => response.status \in {200, 404}

Stages == <<"fetch", "normalize", "persist">>

\* The response was fetched and has a row for every timestamp: a non-empty
\* time array and a temperature and a humidity at each of its indices.
Normalizable(api) ==
    /\ api.ok /\ api.hourly /\ api.keys = HourlyKeys
    /\ api.time # << >>
    /\ Len(api.temperature_2m) >= Len(api.time)
    /\ Len(api.relative_humidity_2m) >= Len(api.time)

\* The stages the call c has entered are the first ones of Fetch, Normalize,
\* Persist, in that order and each once; a failed stage is the last one
\* entered, and Persist was entered only with a fetched response that
\* Normalize accepted.
StagesInOrder(c) ==
    /\ Len(c.stages) <= Len(Stages)
    /\ c.stages = SubSeq(Stages, 1, Len(c.stages))
    /\ c.pc # "idle" => Len(c.stages) >= 1
    /\ ~c.api.ok => (c.stages = <<"fetch">> \/ c.pc = "idle")
    /\ (c.pc \in {"respond", "done"} /\ c.api.ok /\ ~WellFormed(c.api))
       => \/ c.stages = <<"fetch", "normalize">>
          \/ /\ c.stages = Stages
             /\ c.error = "NOT NULL constraint failed: weather_data.timestamp"
    /\ Len(c.stages) = 3 => Normalizable(c.api)
    /\ c.error # "" => c.pc \in {"rollback", "close", "respond", "done"}
    /\ (c.pc = "done" /\ c.error = "") => c.stages = Stages
    /\ c.pc = "done" => c.status = (IF c.error = "" THEN 200 ELSE 500)

\* C19: within one ingestion the stages run in the order Fetch, Normalize,
\* Persist, each at most once (one upstream request, no retry); once a stage
\* has failed no later stage is entered, the table is left unchanged and the
\* result is the error with its message; the table changes only under a
\* call in Persist whose Fetch and Normalize succeeded.
C19_StagesInOrder ==
    [][/\ \A p \in Callers :
             /\ StagesInOrder(calls[p])'
             /\ calls[p].error # ""
                => /\ calls'[p].stages = calls[p].stages
                   /\ calls'[p].error = calls[p].error
             /\ (calls[p].pc = "respond" /\ calls'[p].pc = "done"
                 /\ calls[p].error # "")
                => /\ response'.kind = "error"
                   /\ response'.status = 500
                   /\ response'.error = calls[p].error
                   /\ weather_data' = weather_data
       /\ weather_data' # weather_data
          => \E p \in Callers :
                /\ calls'[p] # calls[p]
                /\ calls[p].stages = Stages
                /\ calls[p].error = ""]_vars

\* C19 witness: one call stopped at Normalize with an error result, the
\* other ran all three stages; the table holds the rows of the second only.
C19_Witness ==
    \E p, q \in Callers :
        /\ calls[p].pc = "done"
        /\ calls[p].stages = <<"fetch", "normalize">>
        /\ calls[p].status = 500
        /\ calls[q].pc = "done"
        /\ calls[q].stages = Stages
        /\ calls[q].status = 200
        /\ weather_data = Batch(calls[q])

\* C21: immediately after a successful ingestion of the range
\* [today - DAYS_TO_FETCH, today], whatever the offset of the local time
\* from UTC, the window query for the most recent location returns at least
\* one row, and an export issued then is answered 200, not "no data".
C21_FreshIngestionIsInWindow ==
    /\ Ingested(response)
        => \A rows \in get_latest_location_data(weather_data, clock) :
                rows # << >>
    /\ (IsExport(response) /\ weather_data # << >>) => response.status = 200

\* An export answered 200 right after an ingestion on a server west of UTC
\* whose date is still the day before the UTC date, at the last UTC hour at
\* which that happens: the newest row served is the furthest behind now.
C21_Witness ==
    /\ IsExport(response)
    /\ response.status = 200
    /\ Hour(clock) = 11
    /\ \A i \in 1..Len(response.rows) : response.rows[i].timestamp < 0

\* initialize_database has returned.
StartupReturned == startup.pc = "returned"

\* The attempt's connectivity check failed.
CheckFailed(o) == ~o.check

\* The attempt ended in the except clause: its check failed or its init_db
\* raised.
AttemptFailed(o) == ~o.check \/ o.init = "raised"

\* The attempts made, their order and the waits between them, an attempt
\* counting as failed when Failed says so: at most
\* DATABASE_CONNECTION_RETRIES attempts, none after one that did not fail,
\* True exactly when the last one did not fail, False exactly when all
\* DATABASE_CONNECTION_RETRIES failed, and one delay after each failed attempt
\* but the last of them.
AttemptsAsClaimed(Failed(_)) ==
    LET made == Len(startup.outcomes)
    IN  /\ made <= DATABASE_CONNECTION_RETRIES
        /\ \A i \in 1..(made - 1) : Failed(startup.outcomes[i])
        /\ ~StartupReturned
            => /\ \A i \in 1..made : Failed(startup.outcomes[i])
               /\ startup.waited = made * DATABASE_RETRY_DELAY
        /\ StartupReturned
            => /\ made >= 1
               /\ startup.result <=> ~Failed(startup.outcomes[made])
               /\ ~startup.result
                    <=> /\ made = DATABASE_CONNECTION_RETRIES
                        /\ \A i \in 1..made : Failed(startup.outcomes[i])
               /\ startup.waited = (made - 1) * DATABASE_RETRY_DELAY

\* C22 (as claimed): initialize_database makes at most
\* DATABASE_CONNECTION_RETRIES attempts, returns True at the first attempt
\* whose connectivity check succeeds and makes no attempt after it, returns
\* False if and only if the check of every attempt fails, and waits the delay
\* after each failed attempt except the last.
C22_TrueAtFirstSuccessfulCheck == AttemptsAsClaimed(CheckFailed)

\* C22 (amended): initialize_database terminates after at most
\* DATABASE_CONNECTION_RETRIES attempts; it returns True at the first attempt
\* whose connectivity check succeeds and whose init_db does not raise, making
\* no further attempt; an attempt whose init_db raises is retried like one
\* whose check failed; it returns False if and only if all
\* DATABASE_CONNECTION_RETRIES attempts fail in that sense; it waits the delay
\* after each failed attempt except the last.
C22_TrueAtFirstCompletedAttempt ==
    []AttemptsAsClaimed(AttemptFailed) /\ <>StartupReturned

\* True at the third attempt: the check of the first failed, the init_db of
\* the second raised after its check had succeeded.
C22_Witness ==
    /\ StartupReturned
    /\ startup.result
    /\ Len(startup.outcomes) = 3
    /\ ~startup.outcomes[1].check
    /\ startup.outcomes[2] = [check |-> TRUE, init |-> "raised"]
    /\ startup.waited = 2 * DATABASE_RETRY_DELAY

\* C23: whenever initialize_database has returned True the table
\* weather_data exists, and no later insert or query fails for the missing
\* table.
C23_TrueMeansTableExists ==
    (StartupReturned /\ startup.result)
        => /\ "weather_data" \in schema
           /\ response.error # NoSuchTable

\* C23, its second sentence: an attempt of initialize_database changes no
\* stored row.
C23_AttemptKeepsRows ==
    [][startup.pc = "loop" => weather_data' = weather_data]_vars

\* C24: every row written through /weather-report carries the coordinate of
\* its request, which passed validation: each stored row has its latitude in
\* [-90, 90] and its longitude in [-180, 180], and the rows of one ingestion
\* batch share one (latitude, longitude).
C24_RowsCarryRequestCoordinate ==
    /\ [](\A i \in 1..Len(weather_data) :
            /\ -90 <= weather_data[i].latitude
            /\ weather_data[i].latitude <= 90
            /\ -180 <= weather_data[i].longitude
            /\ weather_data[i].longitude <= 180)
    /\ [][\A i \in (Len(weather_data) + 1)..Len(weather_data') :
            /\ response'.endpoint = "weather-report"
            /\ ValidCoordinate(response'.lat, response'.lon)
            /\ weather_data'[i].latitude = response'.lat.val
            /\ weather_data'[i].longitude = response'.lon.val]_vars

\* A batch of two rows stored for (-90, -180).
C24_Witness ==
    /\ Ingested(response)
    /\ response.lat = NumArg(-90)
    /\ response.lon = NumArg(-180)
    /\ response.records_count = 2
    /\ Len(weather_data) = 2
    /\ \A i \in 1..2 : /\ weather_data[i].latitude = -90
                       /\ weather_data[i].longitude = -180

\* The response has the three arrays, none empty, and not all of one length.
UnequalArrays(api) ==
    /\ api.ok /\ api.hourly /\ api.keys = HourlyKeys
    /\ api.time # << >>
    /\ api.temperature_2m # << >>
    /\ api.relative_humidity_2m # << >>
    /\ ~(/\ Len(api.temperature_2m) = Len(api.time)
         /\ Len(api.relative_humidity_2m) = Len(api.time))

\* C25: with the time, temperature and humidity arrays all non-empty and not
\* of one length, an ingestion whose temperature or humidity array is
\* shorter than the time array ends with an error result and inserts no row;
\* otherwise len(time) tuples are built, from the first len(time) readings,
\* and the readings past them are ignored.
C25_UnequalArrays ==
    (response.endpoint = "weather-report" /\ UnequalArrays(upstream))
    => LET n == Len(upstream.time)
       IN  IF \/ Len(upstream.temperature_2m) < n
              \/ Len(upstream.relative_humidity_2m) < n
           THEN /\ response.status = 500
                /\ response.kind = "error"
                /\ response.records_count = 0
                /\ processed.raised
                /\ weather_data = << >>
           ELSE /\ ~processed.raised
                /\ Len(processed.data) = n
                /\ \A i \in 1..n :
                     /\ processed.data[i].timestamp = upstream.time[i]
                     /\ processed.data[i].temperature_2m
                        = AsStored(upstream.temperature_2m[i])
                     /\ processed.data[i].relative_humidity_2m
                        = AsStored(upstream.relative_humidity_2m[i])
                /\ response.status = 200
                    => LET base == Len(weather_data) - n
                       IN  /\ response.records_count = n
                           /\ base >= 0
                           /\ \A i \in 1..n :
                                /\ weather_data[base + i].timestamp
                                   = upstream.time[i].val
                                /\ weather_data[base + i].temperature_2m
                                   = AsStored(upstream.temperature_2m[i])
                                /\ weather_data[base + i].relative_humidity_2m
                                   = AsStored(upstream.relative_humidity_2m[i])

\* One timestamp with MaxLen temperatures and MaxLen humidities: one row
\* stored, with the first temperature, not the last.
C25_Witness ==
    /\ response.endpoint = "weather-report"
    /\ response.status = 200
    /\ Len(upstream.time) = 1
    /\ Len(upstream.temperature_2m) = MaxLen
    /\ Len(upstream.relative_humidity_2m) = MaxLen
    /\ upstream.temperature_2m[1] = Null
    /\ upstream.temperature_2m[MaxLen] = Num(5)
    /\ Len(processed.data) = 1
    /\ Len(weather_data) = 1
    /\ weather_data[1].temperature_2m = 0

\* The selection of an export request is empty.
NoDataSelected == get_latest_location_data(weather_data, clock) = {<< >>}

\* The error bodies of an export whose rendering raised before the file was
\* opened.
RenderErrorBodies ==
    {"Excel export failed: " \o e :
        e \in RenderErrors("Failed to generate Excel export")}
    \cup {"PDF export failed: " \o e :
            e \in RenderErrors("Failed to generate PDF report")}

\* The answer is 500 with a JSON error body, and carries no file.
AnsweredError(r) ==
    /\ r.status = 500
    /\ r.kind = "error"
    /\ r.error # ""
    /\ r.records_count = 0
    /\ r.rows = NoRows

====
